---- MODULE Spec2Model ----
(***************************************************************************)
(* Conway's Game of Life (conways_game_of_life.py): the toroidal           *)
(* neighbour count, the generation update with cell ageing, the colour     *)
(* palette, and the frame loop of main() with its keyboard and mouse       *)
(* handlers and its draw pass.                                             *)
(*                                                                         *)
(* A numpy array is a function [0..rows-1 -> [0..cols-1 -> Int]].  An      *)
(* array object lives in an object table (a sequence of arrays) wherever   *)
(* the code holds two names that may or may not denote the same object     *)
(* (update_grid's grid and next_grid).                                     *)
(*                                                                         *)
(* Of draw_grid the model keeps which palette entry is drawn for which     *)
(* cell.  show_ui, draw_ui, the glow layers and the grid lines are         *)
(* presentation only and carry no state of the simulation; they are not    *)
(* modelled.                                                               *)
(***************************************************************************)
EXTENDS Integers, Sequences, FiniteSets, TLC

VARIABLES
    width,      \* window width in pixels            (line 29)
    height,     \* window height in pixels           (line 29)
    cell_size,  \* pixels per cell                   (line 41)
    grid,       \* the array the global `grid` names (lines 46, 116)
    cell_ages,  \* the array `cell_ages` names       (line 68)
    paused,     \* main's local                      (line 173)
    running,    \* main's local                      (line 172)
    pc,         \* where main is: "events", "update", "draw", "done", "crashed";
                \* "test" where a function is called on its own
    lived,      \* history: per cell, steps survived since it last became alive,
                \* was clicked or was reseeded (never capped)
    horizon,    \* exploration bound on `lived`, set by Init
    last,       \* history: the operation that produced this state
    pre         \* history: grid and ages before the last step or click

vars == <<width, height, cell_size, grid, cell_ages, paused, running, pc,
          lived, horizon, last, pre>>

window == <<width, height, cell_size>>

----------------------------------------------------------------------------
(* Bounds of the exploration *)

\* cells survive at most this many steps in the interactive specification
MaxLived == 2
\* ... and this many in the long-run specifications (beyond the age cap)
LongLived == 257
\* count_neighbors is applied to every 0/1 array of at most this many cells
MaxCells == 12

\* the line of three is placed on every grid of 3 .. MaxSide rows and columns
MaxSide == 6

\* generate_color_palette(n) is called for every n in 1 .. MaxColors
MaxColors == 60

(* Program constants *)

\* min(255, ...) in update_grid
AgeCap == 255
\* width, height = 1200, 800
WindowWidth == 1200
WindowHeight == 800
\* cell_size = 12
CellSize == 12
\* color_palette = generate_color_palette(256)
PaletteSize == 256

----------------------------------------------------------------------------
(* numpy arrays *)

Shape(a) == <<Cardinality(DOMAIN a), Cardinality(DOMAIN a[0])>>

Cells(r, c) == (0 .. r - 1) \X (0 .. c - 1)

Filled(r, c, v) == [i \in 0 .. r - 1 |-> [j \in 0 .. c - 1 |-> v]]

Arrays(r, c) == [0 .. r - 1 -> [0 .. c - 1 -> {0, 1}]]

\* a[i, j] = v with in-range i, j
setitem(a, i, j, v) == [a EXCEPT ![i][j] = v]

\* numpy's a[i, j] for any integers, a of shape (r, c): an index in [-n, n)
\* addresses the array (a negative one from the end), any other raises
\* IndexError
index_ok(i, n) == -n <= i /\ i < n

getitem(a, i, j, r, c) ==
    IF index_ok(i, r) /\ index_ok(j, c)
    THEN [err |-> FALSE, val |-> a[i % r][j % c]]
    ELSE [err |-> TRUE, val |-> 0]

\* cols = width // cell_size ; rows = height // cell_size
cols == width \div cell_size
rows == height \div cell_size

----------------------------------------------------------------------------
(* count_neighbors(grid, x, y) *)

\* (mutant) the index is used as it is, without the modulo
wrap_index_unwrapped(p, n) == p

\* row = (x + i) % rows ; col = (y + j) % cols
wrap_index(p, n) == p % n

\* (mutant) the loop without `if i == 0 and j == 0: continue`
RECURSIVE count_loop_with_self(_, _, _, _, _, _, _)
count_loop_with_self(g, x, y, r, c, k, total) ==
    IF k = 9 THEN [err |-> FALSE, val |-> total]
    ELSE LET i == (k \div 3) - 1
             j == (k % 3) - 1
             rd == getitem(g, (x + i) % r, (y + j) % c, r, c)
         IN  IF rd.err THEN [err |-> TRUE, val |-> total]
             ELSE count_loop_with_self(g, x, y, r, c, k + 1, total + rd.val)

\* the loop `for i in range(-1, 2): for j in range(-1, 2)`, iteration k = 0..8,
\* carrying `total`, with r, c = grid.shape; err is set when a read raises
\* IndexError
RECURSIVE count_loop(_, _, _, _, _, _, _)
count_loop(g, x, y, r, c, k, total) ==
    IF k = 9 THEN [err |-> FALSE, val |-> total]
    ELSE LET i == (k \div 3) - 1
             j == (k % 3) - 1
         IN  IF i = 0 /\ j = 0
             THEN count_loop(g, x, y, r, c, k + 1, total)
             ELSE LET rd == getitem(g, wrap_index(x + i, r), wrap_index(y + j, c), r, c)
                  IN  IF rd.err THEN [err |-> TRUE, val |-> total]
                      ELSE count_loop(g, x, y, r, c, k + 1, total + rd.val)

\* (mutant) only the four orthogonal neighbours are counted
count_neighbors_orthogonal(g, x, y) ==
    LET r == Shape(g)[1]
        c == Shape(g)[2]
    IN  [err |-> FALSE,
         val |-> g[(x - 1) % r][y] + g[(x + 1) % r][y]
                 + g[x][(y - 1) % c] + g[x][(y + 1) % c]]

\* (mutant) each cell other than (x, y) is counted once, however many of the
\* eight offsets wrap onto it
count_neighbors_distinct(g, x, y) ==
    LET r == Shape(g)[1]
        c == Shape(g)[2]
        around == {<<(x + i) % r, (y + j) % c>> : i \in -1 .. 1, j \in -1 .. 1}
                     \ {<<x, y>>}
    IN  [err |-> FALSE,
         val |-> Cardinality({cell \in around : g[cell[1]][cell[2]] = 1})]

count_neighbors(g, x, y) == count_loop(g, x, y, Shape(g)[1], Shape(g)[2], 0, 0)

----------------------------------------------------------------------------
(* update_grid() *)

Min(a, b) == IF a <= b THEN a ELSE b

\* (mutant) next_grid = grid: a second name for the same object
ndarray_alias(mem, a) == [mem |-> mem, ref |-> a]

\* next_grid = grid.copy(): a new array object holding the contents of object a
ndarray_copy(mem, a) == [mem |-> Append(mem, mem[a]), ref |-> Len(mem) + 1]

\* (mutant) cell_ages[i, j] += 1, without the cap
aged_uncapped(a) == a + 1

\* cell_ages[i, j] = min(255, cell_ages[i, j] + 1)
aged(a) == Min(AgeCap, a + 1)

\* (mutant) a live cell dies of overpopulation only above four neighbours
update_cell_overpop_five(st, g, ng, i, j) ==
    LET cnt == count_neighbors(st.mem[g], i, j)
        neighbors == cnt.val
    IN  IF cnt.err THEN [st EXCEPT !.err = TRUE]
        ELSE IF st.mem[g][i][j] = 1
        THEN IF neighbors < 2 \/ neighbors > 4
             THEN [st EXCEPT !.mem[ng] = setitem(@, i, j, 0),
                             !.ages = setitem(@, i, j, 0)]
             ELSE [st EXCEPT !.ages = setitem(@, i, j, aged(@[i][j]))]
        ELSE IF neighbors = 3
             THEN [st EXCEPT !.mem[ng] = setitem(@, i, j, 1),
                             !.ages = setitem(@, i, j, 0)]
             ELSE st

\* (mutant) a dying cell keeps its age
update_cell_keeps_age(st, g, ng, i, j) ==
    LET cnt == count_neighbors(st.mem[g], i, j)
        neighbors == cnt.val
    IN  IF cnt.err THEN [st EXCEPT !.err = TRUE]
        ELSE IF st.mem[g][i][j] = 1
        THEN IF neighbors < 2 \/ neighbors > 3
             THEN [st EXCEPT !.mem[ng] = setitem(@, i, j, 0)]
             ELSE [st EXCEPT !.ages = setitem(@, i, j, aged(@[i][j]))]
        ELSE IF neighbors = 3
             THEN [st EXCEPT !.mem[ng] = setitem(@, i, j, 1),
                             !.ages = setitem(@, i, j, 0)]
             ELSE st

\* (mutant) no cell is ever born
update_cell_no_birth(st, g, ng, i, j) ==
    LET cnt == count_neighbors(st.mem[g], i, j)
        neighbors == cnt.val
    IN  IF cnt.err THEN [st EXCEPT !.err = TRUE]
        ELSE IF st.mem[g][i][j] = 1
        THEN IF neighbors < 2 \/ neighbors > 3
             THEN [st EXCEPT !.mem[ng] = setitem(@, i, j, 0),
                             !.ages = setitem(@, i, j, 0)]
             ELSE [st EXCEPT !.ages = setitem(@, i, j, aged(@[i][j]))]
        ELSE st

\* the body of the two loops for cell (i, j): st holds the object table, the
\* ages and the error flag; g and ng are the objects `grid` and `next_grid` name
update_cell(st, g, ng, i, j) ==
    LET cnt == count_neighbors(st.mem[g], i, j)
        neighbors == cnt.val
    IN  IF cnt.err THEN [st EXCEPT !.err = TRUE]
        ELSE IF st.mem[g][i][j] = 1
        THEN IF neighbors < 2 \/ neighbors > 3
             THEN [st EXCEPT !.mem[ng] = setitem(@, i, j, 0),
                             !.ages = setitem(@, i, j, 0)]
             ELSE [st EXCEPT !.ages = setitem(@, i, j, aged(@[i][j]))]
        ELSE IF neighbors = 3
             THEN [st EXCEPT !.mem[ng] = setitem(@, i, j, 1),
                             !.ages = setitem(@, i, j, 0)]
             ELSE st

\* (mutant) the scan is left half-way through the grid
RECURSIVE scan_part_way(_, _, _, _, _, _)
scan_part_way(st, g, ng, c, k, stop) ==
    IF k >= stop \div 2 \/ st.err THEN st
    ELSE scan_part_way(update_cell(st, g, ng, k \div c, k % c),
                       g, ng, c, k + 1, stop)

\* for i in range(rows): for j in range(cols): the iterations for the cells
\* number k .. stop - 1, cell number k being (k // c, k % c)
RECURSIVE scan(_, _, _, _, _, _)
scan(st, g, ng, c, k, stop) ==
    IF k = stop \/ st.err THEN st
    ELSE scan(update_cell(st, g, ng, k \div c, k % c), g, ng, c, k + 1, stop)

\* the state update_grid starts its loops in: `grid` names object 1
scan_start(G, A) ==
    LET cp == ndarray_copy(<<G>>, 1)
    IN  [st |-> [mem |-> cp.mem, ages |-> A, err |-> FALSE], g |-> 1, ng |-> cp.ref]

\* update_grid on the state (grid array G, ages A) with loop bounds r, c:
\* the new (grid, ages), or err when an exception left the function
update_grid(G, A, r, c) ==
    LET s0  == scan_start(G, A)
        fin == scan(s0.st, s0.g, s0.ng, c, 0, r * c)
    IN  [err |-> fin.err, grid |-> fin.mem[s0.ng], ages |-> fin.ages]

\* history: a cell alive before and after a step has lived one step more
lived_after(L, G, G2) ==
    [i \in DOMAIN G |-> [j \in DOMAIN G[i] |->
        IF G[i][j] = 1 /\ G2[i][j] = 1 THEN L[i][j] + 1 ELSE 0]]

----------------------------------------------------------------------------
(* Python floats: IEEE 754 binary64, round to nearest, ties to even.  Only  *)
(* values >= 0 in the normal range arise in generate_color_palette.  A     *)
(* float is [m, e], the value m * 2^e, with m = 0 or m of exactly          *)
(* Precision bits; m is a natural number of any size, held as a sequence   *)
(* of limbs below Base, least significant first, without a leading zero.   *)

\* bits of a binary64 significand
Precision == 53
\* bits of a limb: a product of two limbs plus a carry fits a 32-bit integer
LimbBits == 15

Base == 2 ^ LimbBits

RECURSIVE strip(_)
strip(a) ==
    IF a # <<>> /\ a[Len(a)] = 0 THEN strip(SubSeq(a, 1, Len(a) - 1)) ELSE a

\* the natural number k < Base * Base
big(k) ==
    IF k = 0 THEN <<>>
    ELSE IF k < Base THEN <<k>> ELSE <<k % Base, k \div Base>>

\* the value of a natural number of at most two limbs
small(a) ==
    IF a = <<>> THEN 0
    ELSE IF Len(a) = 1 THEN a[1] ELSE a[1] + Base * a[2]

\* a * k + carry, for k and carry below Base (leading zeros not stripped)
RECURSIVE mul_limb(_, _, _)
mul_limb(a, k, carry) ==
    IF a = <<>> THEN (IF carry = 0 THEN <<>> ELSE <<carry>>)
    ELSE LET t == a[1] * k + carry
         IN  <<t % Base>> \o mul_limb(Tail(a), k, t \div Base)

\* a + b + carry
RECURSIVE add(_, _, _)
add(a, b, carry) ==
    IF a = <<>> /\ b = <<>> THEN (IF carry = 0 THEN <<>> ELSE <<carry>>)
    ELSE LET x == IF a = <<>> THEN 0 ELSE a[1]
             y == IF b = <<>> THEN 0 ELSE b[1]
             t == x + y + carry
         IN  <<t % Base>> \o add(IF a = <<>> THEN a ELSE Tail(a),
                                 IF b = <<>> THEN b ELSE Tail(b), t \div Base)

\* a - b - borrow, for a >= b + borrow (leading zeros not stripped)
RECURSIVE sub(_, _, _)
sub(a, b, borrow) ==
    IF a = <<>> THEN <<>>
    ELSE LET y == IF b = <<>> THEN 0 ELSE b[1]
             t == a[1] - y - borrow
         IN  <<t % Base>> \o sub(Tail(a), IF b = <<>> THEN b ELSE Tail(b),
                                 IF t < 0 THEN 1 ELSE 0)

\* a * b
RECURSIVE mul(_, _)
mul(a, b) ==
    IF a = <<>> \/ b = <<>> THEN <<>>
    ELSE strip(add(mul_limb(a, b[1], 0), <<0>> \o mul(a, Tail(b)), 0))

\* the limbs a[1..i] divided by k < Base, from the top limb down, rem being
\* the remainder so far and q the quotient limbs found
RECURSIVE divmod_limb(_, _, _, _, _)
divmod_limb(a, k, i, rem, q) ==
    IF i = 0 THEN [q |-> strip(q), r |-> rem]
    ELSE LET t == rem * Base + a[i]
         IN  divmod_limb(a, k, i - 1, t % k, <<t \div k>> \o q)

\* a * 2^n
shift_left(a, n) ==
    IF a = <<>> THEN a
    ELSE [i \in 1 .. n \div LimbBits |-> 0] \o mul_limb(a, 2 ^ (n % LimbBits), 0)

\* a // 2^n
shift_right(a, n) ==
    LET w == n \div LimbBits
    IN  IF w >= Len(a) THEN <<>>
        ELSE LET top == SubSeq(a, w + 1, Len(a))
             IN  divmod_limb(top, 2 ^ (n % LimbBits), Len(top), 0, <<>>).q

odd(a) == a # <<>> /\ a[1] % 2 = 1

bit_length(a) ==
    IF a = <<>> THEN 0
    ELSE LimbBits * (Len(a) - 1)
         + (CHOOSE b \in 1 .. LimbBits :
                2 ^ (b - 1) <= a[Len(a)] /\ a[Len(a)] < 2 ^ b)

\* the float nearest to N * 2^e, ties to even
round_to_float(N, e) ==
    LET L == bit_length(N)
    IN  IF L = 0 THEN [m |-> <<>>, e |-> 0]
        ELSE IF L <= Precision
        THEN [m |-> shift_left(N, Precision - L), e |-> e - (Precision - L)]
        ELSE LET sh     == L - Precision
                 q2     == shift_right(N, sh - 1)
                 q      == shift_right(q2, 1)
                 guard  == odd(q2)
                 sticky == shift_left(q2, sh - 1) # N
                 m1     == IF guard /\ (sticky \/ odd(q))
                           THEN add(q, <<1>>, 0) ELSE q
             IN  IF bit_length(m1) > Precision
                 THEN [m |-> shift_right(m1, 1), e |-> e + sh + 1]
                 ELSE [m |-> m1, e |-> e + sh]

\* float(k) for an integer 0 <= k < Base * Base
float_of_int(k) == round_to_float(big(k), 0)

\* a / b for integers 0 <= a and 0 < b < Base, as `/` or a decimal literal
\* gives it: the float nearest to the quotient.  The quotient is taken to five
\* limbs of binary places and a last bit records a remainder.
true_div(a, b) ==
    LET num == shift_left(big(a), 5 * LimbBits)
        d   == divmod_limb(num, b, Len(num), 0, <<>>)
    IN  round_to_float(add(shift_left(d.q, 1),
                           IF d.r = 0 THEN <<>> ELSE <<1>>, 0),
                       -(5 * LimbBits + 1))

\* x * y
float_mul(x, y) == round_to_float(mul(x.m, y.m), x.e + y.e)

\* x - y, for x >= y
float_sub(x, y) ==
    IF y.m = <<>> THEN x
    ELSE LET e0 == IF x.e <= y.e THEN x.e ELSE y.e
         IN  round_to_float(strip(sub(shift_left(x.m, x.e - e0),
                                      shift_left(y.m, y.e - e0), 0)), e0)

\* int(x), for x < Base * Base
float_int(x) ==
    IF x.e >= 0 THEN small(shift_left(x.m, x.e))
    ELSE small(shift_right(x.m, -x.e))

----------------------------------------------------------------------------
(* generate_color_palette() *)

\* colorsys.hsv_to_rgb(h, s, v) of the standard library, for 0 <= h < 1,
\* 0 <= s <= 1: a triple of floats
hsv_to_rgb(h, s, v) ==
    IF s.m = <<>> THEN <<v, v, v>>
    ELSE LET one == float_of_int(1)
             h6  == float_mul(h, float_of_int(6))
             i   == float_int(h6)
             f   == float_sub(h6, float_of_int(i))
             p   == float_mul(v, float_sub(one, s))
             q   == float_mul(v, float_sub(one, float_mul(s, f)))
             t   == float_mul(v, float_sub(one,
                                 float_mul(s, float_sub(one, f))))
         IN  CASE i % 6 = 0 -> <<v, t, p>>
               [] i % 6 = 1 -> <<q, v, p>>
               [] i % 6 = 2 -> <<p, v, t>>
               [] i % 6 = 3 -> <<p, q, v>>
               [] i % 6 = 4 -> <<t, p, v>>
               [] i % 6 = 5 -> <<v, p, q>>

\* (mutant) hue = i // n
hue_floor_div(i, n) == float_of_int(i \div n)

\* hue = i / n
hue(i, n) == true_div(i, n)

\* (mutant) the colours at full saturation
saturation_full == float_of_int(1)

\* the literal 0.8 of colorsys.hsv_to_rgb(hue, 0.8, 1.0)
saturation == true_div(8, 10)

\* the literal 1.0
value == float_of_int(1)

\* [int(255 * x) for x in rgb]
channels(rgb) ==
    [c \in 1 .. 3 |-> float_int(float_mul(float_of_int(255), rgb[c]))]

\* generate_color_palette(n): the list `colors`, entry i at position i + 1
generate_color_palette(n) ==
    [k \in 1 .. n |-> channels(hsv_to_rgb(hue(k - 1, n), saturation, value))]

----------------------------------------------------------------------------
(* main(): the frame loop *)

NoPre == [grid |-> <<>>, ages |-> <<>>]

Snapshot == [grid |-> grid, ages |-> cell_ages]

\* (mutant) if 0 <= i <= rows and 0 <= j <= cols
in_grid_inclusive(i, j, r, c) == 0 <= i /\ i <= r /\ 0 <= j /\ j <= c

\* if 0 <= i < rows and 0 <= j < cols
in_grid(i, j, r, c) == 0 <= i /\ i < r /\ 0 <= j /\ j < c

\* i, j = y // cell_size, x // cell_size
pixel_to_cell(p, size) == p \div size

\* event.type == pygame.QUIT, or KEYDOWN with K_ESCAPE: running = False
ev_quit ==
    /\ pc = "events"
    /\ running' = FALSE
    /\ last' = [op |-> "quit"]
    /\ pre' = NoPre
    /\ UNCHANGED <<window, grid, cell_ages, paused, pc, lived, horizon>>

\* KEYDOWN with K_SPACE: paused = not paused
ev_space ==
    /\ pc = "events"
    /\ paused' = ~paused
    /\ last' = [op |-> "space"]
    /\ pre' = NoPre
    /\ UNCHANGED <<window, grid, cell_ages, running, pc, lived, horizon>>

\* (mutant) cell_ages.fill(0) is left out
ndarray_fill_skipped(a, v) == a

\* a.fill(v)
ndarray_fill(a, v) == [i \in DOMAIN a |-> [j \in DOMAIN a[i] |-> v]]

\* KEYDOWN with K_r: grid[:] = np.random.choice(...) ; cell_ages.fill(0)
ev_r ==
    /\ pc = "events"
    /\ grid' \in Arrays(rows, cols)
    /\ cell_ages' = ndarray_fill(cell_ages, 0)
    /\ lived' = Filled(rows, cols, 0)
    /\ last' = [op |-> "reseed"]
    /\ pre' = NoPre
    /\ UNCHANGED <<window, paused, running, pc, horizon>>

\* (mutant) the clicked cell is flipped and keeps its age
toggle_keeps_age(G, A, i, j) ==
    LET r  == Shape(G)[1]
        c  == Shape(G)[2]
        rd == getitem(G, i, j, r, c)
    IN  IF rd.err THEN [err |-> TRUE, grid |-> G, ages |-> A]
        ELSE [err |-> FALSE,
              grid |-> setitem(G, i % r, j % c, IF rd.val = 0 THEN 1 ELSE 0),
              ages |-> A]

\* the assignments under the guard of the click handler, without the guard:
\* grid[i, j] = not grid[i, j] ; cell_ages[i, j] = 0
toggle(G, A, i, j) ==
    LET r  == Shape(G)[1]
        c  == Shape(G)[2]
        rd == getitem(G, i, j, r, c)
    IN  IF rd.err THEN [err |-> TRUE, grid |-> G, ages |-> A]
        ELSE [err |-> FALSE,
              grid |-> setitem(G, i % r, j % c, IF rd.val = 0 THEN 1 ELSE 0),
              ages |-> setitem(A, i % r, j % c, 0)]

\* (mutant) the handler without its `if 0 <= i < rows and 0 <= j < cols`
click_cell_unguarded(G, A, i, j, r, c) == toggle(G, A, i, j)

\* the MOUSEBUTTONDOWN handler for the cell indices (i, j)
click_cell(G, A, i, j, r, c) ==
    IF in_grid(i, j, r, c) THEN toggle(G, A, i, j)
    ELSE [err |-> FALSE, grid |-> G, ages |-> A]

\* MOUSEBUTTONDOWN with the pointer at pixel (x, y) of the window
ev_click(x, y) ==
    /\ pc = "events"
    /\ LET i == pixel_to_cell(y, cell_size)
           j == pixel_to_cell(x, cell_size)
           res == click_cell(grid, cell_ages, i, j, rows, cols)
       IN  /\ grid' = res.grid
           /\ cell_ages' = res.ages
           /\ pc' = IF res.err THEN "crashed" ELSE pc
           /\ lived' = IF i \in 0 .. rows - 1 /\ j \in 0 .. cols - 1
                       THEN setitem(lived, i, j, 0) ELSE lived
           /\ last' = [op |-> "click", i |-> i, j |-> j, err |-> res.err]
    /\ pre' = Snapshot
    /\ UNCHANGED <<window, paused, running, horizon>>

\* the for loop over pygame.event.get() is exhausted
end_events ==
    /\ pc = "events"
    /\ pc' = "update"
    /\ last' = [op |-> "end_events"]
    /\ pre' = NoPre
    /\ UNCHANGED <<window, grid, cell_ages, paused, running, lived, horizon>>

\* (mutant) update_grid() is called whether paused or not
update_while_paused ==
    /\ pc = "update"
    /\ \A cell \in Cells(rows, cols) : lived[cell[1]][cell[2]] < horizon
    /\ LET res == update_grid(grid, cell_ages, rows, cols)
       IN  /\ grid' = res.grid
           /\ cell_ages' = res.ages
           /\ pc' = IF res.err THEN "crashed" ELSE "draw"
           /\ lived' = lived_after(lived, grid, res.grid)
    /\ last' = [op |-> "step"]
    /\ pre' = Snapshot
    /\ UNCHANGED <<window, paused, running, horizon>>

\* if not paused: update_grid()
update ==
    /\ pc = "update"
    /\ IF paused
       THEN /\ pc' = "draw"
            /\ last' = [op |-> "skip"]
            /\ pre' = NoPre
            /\ UNCHANGED <<grid, cell_ages, lived>>
       ELSE /\ \A cell \in Cells(rows, cols) : lived[cell[1]][cell[2]] < horizon
            /\ LET res == update_grid(grid, cell_ages, rows, cols)
               IN  /\ grid' = res.grid
                   /\ cell_ages' = res.ages
                   /\ pc' = IF res.err THEN "crashed" ELSE "draw"
                   /\ lived' = lived_after(lived, grid, res.grid)
            /\ last' = [op |-> "step"]
            /\ pre' = Snapshot
    /\ UNCHANGED <<window, paused, running, horizon>>

\* the background, where draw_grid draws no cell
Background == -1

\* color_palette[age]: a list of n entries takes the indices -n .. n - 1, a
\* negative one counted from the end; the result is the entry's position
palette_lookup(age, n) ==
    IF index_ok(age, n)
    THEN [err |-> FALSE, val |-> IF age < 0 THEN age + n ELSE age]
    ELSE [err |-> TRUE, val |-> Background]

\* draw_grid(): the palette entry drawn for each cell (Background for a dead
\* one), or err when a lookup raised IndexError
draw_grid(G, A, r, c) ==
    LET looked == [i \in 0 .. r - 1 |-> [j \in 0 .. c - 1 |->
                     IF G[i][j] = 1 THEN palette_lookup(A[i][j], PaletteSize)
                     ELSE [err |-> FALSE, val |-> Background]]]
    IN  [err   |-> \E cell \in Cells(r, c) : looked[cell[1]][cell[2]].err,
         frame |-> [i \in 0 .. r - 1 |-> [j \in 0 .. c - 1 |-> looked[i][j].val]]]

\* draw_grid() ... clock.tick(30), then the test of `while running`
draw ==
    /\ pc = "draw"
    /\ LET res == draw_grid(grid, cell_ages, rows, cols)
       IN  /\ pc' = IF res.err THEN "crashed"
                    ELSE IF running THEN "events" ELSE "done"
           /\ last' = [op |-> "draw", frame |-> res.frame, err |-> res.err]
    /\ pre' = NoPre
    /\ UNCHANGED <<window, grid, cell_ages, paused, running, lived, horizon>>

----------------------------------------------------------------------------
(* The interactive program on small windows *)

\* <<width, height, cell_size, horizon>>: a 2x2 grid with a strip of pixels
\* below the last row (as 800 // 12 leaves one), a 2x3 grid, and a 1x2 grid
\* followed beyond the age cap
Configurations == {<<4, 5, 2, MaxLived>>, <<3, 2, 1, MaxLived>>,
                   <<2, 1, 1, LongLived>>}

Constructed(w, h, s, lim, G) ==
    /\ width = w /\ height = h /\ cell_size = s
    /\ grid = G
    /\ cell_ages = Filled(h \div s, w \div s, 0)
    /\ lived = Filled(h \div s, w \div s, 0)
    /\ paused = FALSE
    /\ running = TRUE
    /\ pc = "events"
    /\ horizon = lim
    /\ last = [op |-> "init"]
    /\ pre = NoPre

\* grid = np.random.choice([0, 1], size=(rows, cols), ...): any 0/1 array
Init ==
    \E g \in Configurations : \E G \in Arrays(g[2] \div g[3], g[1] \div g[3]) :
        Constructed(g[1], g[2], g[3], g[4], G)

Next ==
    \/ ev_quit
    \/ ev_space
    \/ ev_r
    \/ \E x \in 0 .. width - 1, y \in 0 .. height - 1 : ev_click(x, y)
    \/ end_events
    \/ update
    \/ draw

Spec == Init /\ [][Next]_vars

----------------------------------------------------------------------------
(* The program left alone: no input event arrives *)

\* every random 3x3 and 3x4 initial grid
RunGeometries == {<<3, 3, 1>>, <<4, 3, 1>>}

InitRun ==
    \E g \in RunGeometries : \E G \in Arrays(g[2] \div g[3], g[1] \div g[3]) :
        Constructed(g[1], g[2], g[3], MaxLived, G)

NextRun ==
    \/ end_events
    \/ update
    \/ draw

SpecRun == InitRun /\ [][NextRun]_vars

\* a 5x5 grid holding the vertical line (1,2), (2,2), (3,2)
Vertical == [i \in 0 .. 4 |-> [j \in 0 .. 4 |->
                IF j = 2 /\ i \in 1 .. 3 THEN 1 ELSE 0]]

Horizontal == [i \in 0 .. 4 |-> [j \in 0 .. 4 |->
                IF i = 2 /\ j \in 1 .. 3 THEN 1 ELSE 0]]

InitBlinker == Constructed(5, 5, 1, LongLived, Vertical)

SpecBlinker == InitBlinker /\ [][NextRun]_vars

\* test_blinker_pattern on any grid: an r x c grid holding the vertical line
\* of three cells centred at (i, j), rows taken modulo r
VerticalLine(r, c, i, j) ==
    [x \in 0 .. r - 1 |-> [y \in 0 .. c - 1 |->
        IF y = j /\ x \in {(i + r - 1) % r, i, (i + 1) % r} THEN 1 ELSE 0]]

\* the horizontal line of three cells centred at (i, j)
HorizontalLine(r, c, i, j) ==
    [x \in 0 .. r - 1 |-> [y \in 0 .. c - 1 |->
        IF x = i /\ y \in {(j + c - 1) % c, j, (j + 1) % c} THEN 1 ELSE 0]]

\* the centre cells of an r x c grid (two per axis when the side is even)
Centres(r, c) == {(r - 1) \div 2, r \div 2} \X {(c - 1) \div 2, c \div 2}

InitLine ==
    \E r \in 3 .. MaxSide : \E c \in 3 .. MaxSide : \E m \in Centres(r, c) :
        Constructed(c, r, 1, MaxLived, VerticalLine(r, c, m[1], m[2]))

SpecLine == InitLine /\ [][NextRun]_vars

----------------------------------------------------------------------------
(* count_neighbors applied to arrays of any shape, as the tests apply it *)

Shapes == {s \in (1 .. MaxCells) \X (1 .. MaxCells) : s[1] * s[2] <= MaxCells}

InitCount ==
    /\ \E s \in Shapes :
         /\ width = s[2] /\ height = s[1] /\ cell_size = 1
         /\ grid \in Arrays(s[1], s[2])
         /\ cell_ages = Filled(s[1], s[2], 0)
         /\ lived = Filled(s[1], s[2], 0)
    /\ paused = FALSE
    /\ running = TRUE
    /\ pc = "test"
    /\ horizon = 0
    /\ last = [op |-> "init"]
    /\ pre = NoPre

\* count_neighbors(grid, x, y) for a cell of the array
call_count_neighbors(x, y) ==
    /\ pc = "test"
    /\ last.op = "init"
    /\ LET res == count_neighbors(grid, x, y)
       IN  last' = [op |-> "count_neighbors", x |-> x, y |-> y,
                    ret |-> res.val, err |-> res.err]
    /\ UNCHANGED <<window, grid, cell_ages, paused, running, pc, lived,
                   horizon, pre>>

NextCount == \E cell \in Cells(rows, cols) : call_count_neighbors(cell[1], cell[2])

SpecCount == InitCount /\ [][NextCount]_vars

----------------------------------------------------------------------------
(* generate_color_palette applied to any n, as the tests and line 67 apply it *)

\* the tests' 10 colours among them, and the program's 256
PaletteSizes == (1 .. MaxColors) \cup {PaletteSize}

InitPalette ==
    /\ width = 1 /\ height = 1 /\ cell_size = 1
    /\ grid = Filled(1, 1, 0)
    /\ cell_ages = Filled(1, 1, 0)
    /\ lived = Filled(1, 1, 0)
    /\ paused = FALSE
    /\ running = TRUE
    /\ pc = "test"
    /\ horizon = 0
    /\ last = [op |-> "init"]
    /\ pre = NoPre

\* palette = generate_color_palette(n)
call_generate_color_palette(n) ==
    /\ pc = "test"
    /\ last.op = "init"
    /\ last' = [op |-> "generate_color_palette", n |-> n, calls |-> 1,
                ret |-> generate_color_palette(n), first |-> <<>>]
    /\ UNCHANGED <<window, grid, cell_ages, paused, running, pc, lived,
                   horizon, pre>>

\* a second call with the same n; the result of the first is kept
call_again ==
    /\ pc = "test"
    /\ last.op = "generate_color_palette"
    /\ last.calls = 1
    /\ last' = [op |-> "generate_color_palette", n |-> last.n, calls |-> 2,
                ret |-> generate_color_palette(last.n), first |-> last.ret]
    /\ UNCHANGED <<window, grid, cell_ages, paused, running, pc, lived,
                   horizon, pre>>

NextPalette ==
    \/ \E n \in PaletteSizes : call_generate_color_palette(n)
    \/ call_again

SpecPalette == InitPalette /\ [][NextPalette]_vars

----------------------------------------------------------------------------
(* Properties *)

\* the sum over the eight offsets of the cells at ((x+di) mod r, (y+dj) mod c)
ToroidalCount(G, x, y) ==
    LET r == Cardinality(DOMAIN G)
        c == Cardinality(DOMAIN G[0])
        N(di, dj) == G[(x + di) % r][(y + dj) % c]
    IN  N(-1, -1) + N(-1, 0) + N(-1, 1) + N(0, -1) + N(0, 1)
        + N(1, -1) + N(1, 0) + N(1, 1)

\* Conway's rule for cell (i, j) of grid G
RuleAlive(G, i, j) ==
    LET n == ToroidalCount(G, i, j)
    IN  \/ G[i][j] = 1 /\ (n = 2 \/ n = 3)
        \/ G[i][j] = 0 /\ n = 3

Stepped == last.op = "step"

ClickedInside ==
    /\ last.op = "click"
    /\ 0 <= last.i /\ last.i < rows /\ 0 <= last.j /\ last.j < cols

ClickedOutside ==
    /\ last.op = "click"
    /\ ~(0 <= last.i /\ last.i < rows /\ 0 <= last.j /\ last.j < cols)

\* C1: after a step, cell (i, j) is alive iff it was alive with 2 or 3
\* toroidal neighbours in the grid before the step, or dead with exactly 3;
\* otherwise it is dead.
C1_RuleCorrectness ==
    Stepped =>
        \A cell \in Cells(rows, cols) :
            LET i == cell[1]
                j == cell[2]
            IN  /\ grid[i][j] \in {0, 1}
                /\ grid[i][j] = 1 <=> RuleAlive(pre.grid, i, j)

\* a step in which a live cell with more than 3 neighbours died, a live cell
\* with 2 or 3 survived, a dead cell with 3 was born and a dead cell stayed dead
C1_Witness ==
    /\ Stepped
    /\ \E cell \in Cells(rows, cols) :
         /\ pre.grid[cell[1]][cell[2]] = 1 /\ grid[cell[1]][cell[2]] = 0
         /\ ToroidalCount(pre.grid, cell[1], cell[2]) > 3
    /\ \E cell \in Cells(rows, cols) :
         /\ pre.grid[cell[1]][cell[2]] = 1 /\ grid[cell[1]][cell[2]] = 1
         /\ ToroidalCount(pre.grid, cell[1], cell[2]) \in {2, 3}
    /\ \E cell \in Cells(rows, cols) :
         /\ pre.grid[cell[1]][cell[2]] = 0 /\ grid[cell[1]][cell[2]] = 1
         /\ ToroidalCount(pre.grid, cell[1], cell[2]) = 3
    /\ \E cell \in Cells(rows, cols) :
         pre.grid[cell[1]][cell[2]] = 0 /\ grid[cell[1]][cell[2]] = 0

\* the rule applied to every cell of G at once
Simultaneous(G) ==
    [i \in DOMAIN G |-> [j \in DOMAIN G[i] |-> IF RuleAlive(G, i, j) THEN 1 ELSE 0]]

\* C2: the scan of update_grid writes an array object other than the one it
\* reads, so the array read is the pre-step grid to the end of the scan (a
\* cell is written at most once, and only with a value other than the one it
\* held, so a write that reached the array read would still show there), and
\* the grid after the step is the rule applied to every cell of the pre-step
\* grid at once.
C2_Simultaneous ==
    /\ (pc = "update" /\ ~paused) =>
          LET s0  == scan_start(grid, cell_ages)
              fin == scan(s0.st, s0.g, s0.ng, cols, 0, rows * cols)
          IN  /\ s0.ng # s0.g
              /\ fin.mem[s0.g] = grid
    /\ Stepped => grid = Simultaneous(pre.grid)

\* a step in which a cell early in the scan changed and a neighbour later in
\* the scan changed too
C2_Witness ==
    /\ Stepped
    /\ grid # pre.grid
    /\ grid[0][0] # pre.grid[0][0]
    /\ grid[0][1] # pre.grid[0][1]
    /\ grid[1][1] # pre.grid[1][1]

\* C3: every dead cell has age 0.
C3_DeadAgeZero ==
    \A cell \in Cells(rows, cols) :
        grid[cell[1]][cell[2]] = 0 => cell_ages[cell[1]][cell[2]] = 0

\* a cell that had aged died in a step and its age is back at 0
C3_Witness ==
    /\ Stepped
    /\ \E cell \in Cells(rows, cols) :
         /\ pre.grid[cell[1]][cell[2]] = 1
         /\ pre.ages[cell[1]][cell[2]] >= 1
         /\ grid[cell[1]][cell[2]] = 0
         /\ cell_ages[cell[1]][cell[2]] = 0

\* C4: a live cell that has survived k steps since it became alive, was
\* clicked or was reseeded has age min(k, 255); a cell born in a step has age 0.
C4_AgeCounts ==
    /\ \A cell \in Cells(rows, cols) :
         grid[cell[1]][cell[2]] = 1 =>
            cell_ages[cell[1]][cell[2]] =
                (IF lived[cell[1]][cell[2]] <= 255
                 THEN lived[cell[1]][cell[2]] ELSE 255)
    /\ Stepped =>
         \A cell \in Cells(rows, cols) :
            (pre.grid[cell[1]][cell[2]] = 0 /\ grid[cell[1]][cell[2]] = 1)
                => cell_ages[cell[1]][cell[2]] = 0

\* a cell has survived more than 255 steps and its age stays 255
C4_Witness ==
    \E cell \in Cells(rows, cols) :
        /\ grid[cell[1]][cell[2]] = 1
        /\ lived[cell[1]][cell[2]] > 256
        /\ cell_ages[cell[1]][cell[2]] = 255

\* C5: a click inside the grid flips that cell, sets its age to 0, leaves
\* the state and age of every other cell as they were, and a second click on
\* the same cell gives back the grid before the first.
C5_Toggle ==
    ClickedInside =>
        /\ grid[last.i][last.j] = 1 - pre.grid[last.i][last.j]
        /\ cell_ages[last.i][last.j] = 0
        /\ \A cell \in Cells(rows, cols) \ {<<last.i, last.j>>} :
              /\ grid[cell[1]][cell[2]] = pre.grid[cell[1]][cell[2]]
              /\ cell_ages[cell[1]][cell[2]] = pre.ages[cell[1]][cell[2]]
        /\ ~last.err
        /\ click_cell(grid, cell_ages, last.i, last.j, rows, cols).grid = pre.grid

\* a cell that had aged was clicked while another aged cell was alive
C5_Witness ==
    /\ ClickedInside
    /\ pre.ages[last.i][last.j] >= 1
    /\ \E cell \in Cells(rows, cols) \ {<<last.i, last.j>>} :
          cell_ages[cell[1]][cell[2]] >= 1

\* the program's own window: 800 // 12 = 66 rows and 1200 // 12 = 100 columns,
\* and a click at y in 792..799 gives row 66, which the handler's test rejects
ProgramStripIgnored ==
    /\ WindowHeight \div CellSize = 66
    /\ WindowWidth \div CellSize = 100
    /\ \A y \in 792 .. 799 : \A x \in 0 .. WindowWidth - 1 :
          /\ pixel_to_cell(y, CellSize) = 66
          /\ ~in_grid(pixel_to_cell(y, CellSize), pixel_to_cell(x, CellSize),
                      WindowHeight \div CellSize, WindowWidth \div CellSize)

\* C6: a click whose row or column is outside the grid changes no cell and
\* no age and raises no IndexError; this covers the pixels of the window below
\* the last row.
C6_OutOfRangeIgnored ==
    /\ ClickedOutside =>
          /\ grid = pre.grid
          /\ cell_ages = pre.ages
          /\ ~last.err
          /\ pc # "crashed"
    /\ ProgramStripIgnored

\* a click inside the window that maps to row = rows, on a grid with a live
\* aged cell
C6_Witness ==
    /\ ClickedOutside
    /\ last.i = rows
    /\ \E cell \in Cells(rows, cols) : cell_ages[cell[1]][cell[2]] >= 1

\* C7 (as claimed): a click outside the grid ends in an error outcome.
C7_Reported == ClickedOutside => last.err

\* C7 (amended): a click outside the grid is ignored without any error
\* outcome: nothing is raised and main goes on with the next event.
C7_SilentlyIgnored ==
    ClickedOutside => (~last.err /\ pc = "events" /\ pre = Snapshot)

\* a click outside the grid while the simulation runs unpaused
C7_Witness ==
    /\ ClickedOutside
    /\ running
    /\ ~paused
    /\ pc = "events"

AllEqual(G, v) == \A i \in DOMAIN G : \A j \in DOMAIN G[i] : G[i][j] = v

Counted == last.op = "count_neighbors"

\* C8: count_neighbors returns an integer in 0..8; 0 on an all-dead grid,
\* and 8 on an all-alive grid with at least 3 rows and 3 columns.
C8_CountRange ==
    Counted =>
        /\ last.ret \in 0 .. 8
        /\ AllEqual(grid, 0) => last.ret = 0
        /\ (AllEqual(grid, 1) /\ rows >= 3 /\ cols >= 3) => last.ret = 8

\* the count of a cell of an all-alive grid with at least 3 rows and columns
\* of which one is more than 3
C8_Witness ==
    /\ Counted
    /\ AllEqual(grid, 1)
    /\ rows >= 3 /\ cols >= 3 /\ rows + cols > 6
    /\ last.ret = 8

\* the 3x3 grid with exactly its four corners alive
Corners == [i \in 0 .. 2 |-> [j \in 0 .. 2 |->
              IF i \in {0, 2} /\ j \in {0, 2} THEN 1 ELSE 0]]

\* the index the opposite edge supplies for position p in -1..n
OppositeEdge(p, n) == IF p < 0 THEN n - 1 ELSE IF p >= n THEN 0 ELSE p

\* C9: count_neighbors is the sum of the cells at ((row+di) mod rows,
\* (col+dj) mod cols) over the eight offsets; every index it reads is inside
\* the grid, an index past an edge being the opposite edge's; no read raises;
\* on the 3x3 grid with the four corners alive the count of (0,0) is 3.
C9_Toroidal ==
    Counted =>
        /\ ~last.err
        /\ last.ret = ToroidalCount(grid, last.x, last.y)
        /\ \A d \in {-1, 0, 1} :
              /\ wrap_index(last.x + d, rows) \in 0 .. rows - 1
              /\ wrap_index(last.y + d, cols) \in 0 .. cols - 1
              /\ wrap_index(last.x + d, rows) = OppositeEdge(last.x + d, rows)
              /\ wrap_index(last.y + d, cols) = OppositeEdge(last.y + d, cols)
        /\ (grid = Corners /\ last.x = 0 /\ last.y = 0) => last.ret = 3

\* the count of (0,0) on the corners grid
C9_Witness ==
    /\ Counted
    /\ grid = Corners
    /\ last.x = 0 /\ last.y = 0
    /\ last.ret = 3

\* C10: from the vertical line on the 5x5 grid, a step gives exactly the
\* horizontal line, a step from the horizontal line gives exactly the
\* vertical line, and no other grid is ever reached.
C10_Blinker ==
    /\ grid \in {Vertical, Horizontal}
    /\ Stepped =>
          /\ pre.grid = Vertical => grid = Horizontal
          /\ pre.grid = Horizontal => grid = Vertical
    /\ (last.op = "init") => grid = Vertical

\* the second step has given back the vertical line
C10_Witness ==
    /\ Stepped
    /\ pre.grid = Horizontal
    /\ grid = Vertical
    /\ lived[2][2] = 2

\* the centre (i, j) of the vertical line that the grid before the last step was
LineCentres ==
    {m \in Centres(rows, cols) : pre.grid = VerticalLine(rows, cols, m[1], m[2])}

Alive(G) == Cardinality({cell \in Cells(rows, cols) : G[cell[1]][cell[2]] = 1})

C11_WitnessTall ==
    /\ Stepped
    /\ rows = 4 /\ cols = 3
    /\ LineCentres # {}
    /\ Alive(grid) = 3

Reseeded == last.op = "reseed"

\* what a K_r event, the end of the event loop and the step after it do
ReseedSteps ==
    /\ Reseeded' =>
          /\ \A cell \in Cells(rows, cols) : cell_ages'[cell[1]][cell[2]] = 0
          /\ grid' \in Arrays(rows, cols)
          /\ Shape(grid') = Shape(grid) /\ Shape(cell_ages') = Shape(cell_ages)
          /\ window' = window
    /\ (Reseeded /\ last'.op = "end_events") =>
          grid' = grid /\ cell_ages' = cell_ages
    /\ (last.op = "end_events" /\ Stepped') =>
          /\ pre'.grid = grid
          /\ grid' = update_grid(grid, cell_ages, rows, cols).grid

\* C12: a reseed sets every age to 0 and every cell to 0 or 1 and keeps the
\* dimensions; whatever the grid was, every 0/1 array of these dimensions is
\* a possible outcome; and when the event loop ends after the reseed, the
\* step that follows reads the reseeded grid.
C12_Reseed ==
    /\ [](pc = "events" =>
            \A G \in Arrays(rows, cols) : ENABLED (grid' = G /\ ev_r))
    /\ [][ReseedSteps]_vars

\* a reseed of the 2x3 grid has produced the grid with a full first row
C12_Witness ==
    /\ Reseeded
    /\ rows = 2 /\ cols = 3
    /\ grid = [i \in 0 .. 1 |-> [j \in 0 .. 2 |-> IF i = 0 THEN 1 ELSE 0]]
    /\ cell_ages = Filled(2, 3, 0)


Events == {"quit", "space", "reseed", "click"}

Drawn == last.op = "draw"

\* the (grid, ages) pair is exactly one generation after the pair P
OneGenerationAfter(P) ==
    \A cell \in Cells(rows, cols) :
        LET i == cell[1]
            j == cell[2]
        IN  /\ grid[i][j] = (IF RuleAlive(P.grid, i, j) THEN 1 ELSE 0)
            /\ cell_ages[i][j] =
                  IF P.grid[i][j] = 1 /\ grid[i][j] = 1
                  THEN Min(AgeCap, P.ages[i][j] + 1) ELSE 0

\* the order of a frame, and what its draw sees
FrameSteps ==
    /\ last'.op \in Events => last.op \in Events \cup {"init", "draw"}
    /\ last'.op = "end_events" => last.op \in Events \cup {"init", "draw"}
    /\ last'.op \in {"step", "skip"} => last.op = "end_events"
    /\ Drawn' =>
          /\ last.op \in {"step", "skip"}
          /\ Stepped => OneGenerationAfter(pre)
          /\ grid' = grid /\ cell_ages' = cell_ages
          /\ ~last'.err
          /\ \A cell \in Cells(rows, cols) :
                last'.frame[cell[1]][cell[2]] =
                    IF grid[cell[1]][cell[2]] = 1
                    THEN cell_ages[cell[1]][cell[2]] ELSE Background

\* C13: in a frame the input events come first, then the end of the event
\* loop, then one step or none, then the draw; a draw that follows a step
\* sees a grid and ages that are, in every cell, one whole generation after
\* the pair the step started from, and it shows exactly that pair.
C13_FrameOrder == [][FrameSteps]_vars

\* a draw right after a step shows a cell of age 1 beside a dead cell
C13_Witness ==
    /\ Drawn
    /\ ~paused
    /\ \E a, b \in Cells(rows, cols) :
          /\ lived[a[1]][a[2]] = 1
          /\ last.frame[a[1]][a[2]] = 1
          /\ last.frame[b[1]][b[2]] = Background

Skipped == last.op = "skip"

\* what the statement `if not paused: update_grid()` and the events do to a
\* paused and to a running simulation
PauseSteps ==
    /\ pc = "update" =>
          /\ paused => Skipped' /\ grid' = grid /\ cell_ages' = cell_ages
          /\ ~paused =>
                /\ Stepped'
                /\ pre' = Snapshot
                /\ grid' = update_grid(grid, cell_ages, rows, cols).grid
                /\ cell_ages' = update_grid(grid, cell_ages, rows, cols).ages
          /\ pc' \in {"draw", "crashed"}
    /\ Stepped' => pc = "update" /\ ~paused
    /\ (paused /\ last'.op \notin {"click", "reseed"}) =>
          grid' = grid /\ cell_ages' = cell_ages
    /\ (paused /\ ClickedInside') =>
          /\ grid'[last'.i][last'.j] = 1 - grid[last'.i][last'.j]
          /\ cell_ages'[last'.i][last'.j] = 0
    /\ (paused /\ Reseeded') =>
          \A cell \in Cells(rows, cols) : cell_ages'[cell[1]][cell[2]] = 0
    /\ last'.op = "space" => paused' = ~paused
    /\ last'.op # "space" => paused' = paused

\* C14: the update statement of a frame calls update_grid exactly once when
\* not paused and not at all when paused; while paused only a click or a
\* reseed changes the grid or an age, and both remain possible with their
\* usual effect; each K_SPACE flips paused, so two of them restore it.
C14_Pause ==
    /\ []((paused /\ pc = "events") =>
            /\ \A G \in Arrays(rows, cols) : ENABLED (grid' = G /\ ev_r)
            /\ \A cell \in Cells(rows, cols) :
                  ENABLED (/\ ev_click(cell[2] * cell_size, cell[1] * cell_size)
                           /\ grid'[cell[1]][cell[2]] # grid[cell[1]][cell[2]]))
    /\ [][PauseSteps]_vars

\* a paused frame skipped the step: the cells that had survived one step
\* still have age 1
C14_Witness ==
    /\ Skipped
    /\ paused
    /\ \E cell \in Cells(rows, cols) :
          /\ grid[cell[1]][cell[2]] = 1
          /\ lived[cell[1]][cell[2]] = 1
          /\ cell_ages[cell[1]][cell[2]] = 1

\* C18: on a 1x1 grid the count is 8 times the cell itself, and a lone live
\* cell is dead after update_grid; on a 1xN grid, N >= 3, the count for
\* column y is 2*g[y] + 3*g[y-1 mod N] + 3*g[y+1 mod N]; on a 2x2 grid the
\* diagonal cell counts 4 times, each orthogonal cell twice and the cell
\* itself not at all.
C18_Degenerate ==
    Counted =>
        LET x == last.x
            y == last.y
        IN  /\ ~last.err
            /\ (rows = 1 /\ cols = 1) =>
                  /\ last.ret = 8 * grid[0][0]
                  /\ grid[0][0] = 1 =>
                        LET res == update_grid(grid, cell_ages, 1, 1)
                        IN  ~res.err /\ res.grid[0][0] = 0 /\ res.ages[0][0] = 0
            /\ (rows = 1 /\ cols >= 3) =>
                  last.ret = 2 * grid[0][y] + 3 * grid[0][(y - 1) % cols]
                             + 3 * grid[0][(y + 1) % cols]
            /\ (rows = 2 /\ cols = 2) =>
                  last.ret = 4 * grid[1 - x][1 - y] + 2 * grid[1 - x][y]
                             + 2 * grid[x][1 - y]

\* the lone live cell of a 1x1 grid has counted itself eight times
C18_Witness ==
    /\ Counted
    /\ rows = 1 /\ cols = 1
    /\ grid[0][0] = 1
    /\ last.ret = 8

\* a cell of a 1x5 row has counted itself twice and each side three times
C18_WitnessRow ==
    /\ Counted
    /\ rows = 1 /\ cols = 5
    /\ AllEqual(grid, 1)
    /\ last.ret = 8

\* a corner of the 2x2 grid has counted its live diagonal cell four times
C18_WitnessSquare ==
    /\ Counted
    /\ rows = 2 /\ cols = 2
    /\ last.x = 0 /\ last.y = 0
    /\ grid[1][1] = 1 /\ grid[0][1] = 0 /\ grid[1][0] = 0
    /\ last.ret = 4

\* C19: every age is an integer in 0 .. 255 in every reachable state, so the
\* lookup color_palette[age] of a draw raises no IndexError and, the index
\* never being negative, draws for every live cell the palette entry whose
\* position is the cell's age.
C19_AgeInPalette ==
    /\ \A cell \in Cells(rows, cols) :
          cell_ages[cell[1]][cell[2]] \in 0 .. PaletteSize - 1
    /\ pc # "crashed"
    /\ Drawn =>
          /\ ~last.err
          /\ \A cell \in Cells(rows, cols) :
                grid[cell[1]][cell[2]] = 1 =>
                    last.frame[cell[1]][cell[2]] = cell_ages[cell[1]][cell[2]]

\* a draw of a cell that has survived more steps than the palette has
\* entries: it is drawn with the last entry
C19_Witness ==
    /\ Drawn
    /\ \E cell \in Cells(rows, cols) :
          /\ grid[cell[1]][cell[2]] = 1
          /\ lived[cell[1]][cell[2]] >= PaletteSize
          /\ last.frame[cell[1]][cell[2]] = PaletteSize - 1

Generated == last.op = "generate_color_palette"

\* C16: generate_color_palette(n) returns n entries, each of three integers
\* in 0 .. 255; for n > 1 two of the entries differ; a second call with the
\* same n returns the same list.
C16_Palette ==
    Generated =>
        /\ Len(last.ret) = last.n
        /\ \A k \in 1 .. last.n :
              /\ Len(last.ret[k]) = 3
              /\ \A c \in 1 .. 3 : last.ret[k][c] \in 0 .. 255
        /\ last.n > 1 => \E k \in 2 .. last.n : last.ret[k] # last.ret[1]
        /\ last.calls = 2 => last.ret = last.first

\* the second call of the tests' generate_color_palette(10)
C16_Witness ==
    /\ Generated
    /\ last.n = 10
    /\ last.calls = 2
    /\ Len(last.ret) = 10
    /\ last.ret[1] # last.ret[2]

\* 255 times the exact RGB channels of the HSV colour with hue i/n, saturation
\* sn/sd and value 1, as numerators over the denominator n * sd
ExactChannels(i, n, sn, sd) ==
    LET sector == (6 * i) \div n
        f == 6 * i - sector * n
        v == 255 * n * sd
        p == 255 * n * (sd - sn)
        q == 255 * (n * sd - sn * f)
        t == 255 * (n * sd - sn * (n - f))
    IN  CASE sector = 0 -> <<v, t, p>>
          [] sector = 1 -> <<q, v, p>>
          [] sector = 2 -> <<p, v, t>>
          [] sector = 3 -> <<p, q, v>>
          [] sector = 4 -> <<t, p, v>>
          [] sector = 5 -> <<v, p, q>>

\* x is the floor of num/den, or one less where num/den is an integer
FloorOrBelow(x, num, den) ==
    IF num % den = 0 THEN x \in {num \div den - 1, num \div den}
    ELSE x = num \div den

\* C17 as stated: entry i is the colour of hue i/n at full saturation and
\* full value; entry 0 is (255, 0, 0) and every entry has a channel equal
\* to 0.
C17_FullSaturation ==
    Generated =>
        /\ last.ret[1] = <<255, 0, 0>>
        /\ \A k \in 1 .. last.n :
              /\ \E c \in 1 .. 3 : last.ret[k][c] = 0
              /\ \A c \in 1 .. 3 :
                    FloorOrBelow(last.ret[k][c],
                                 ExactChannels(k - 1, last.n, 1, 1)[c], last.n)

\* C17 (amended): entry i is the colour of hue i/n at saturation 0.8 and full
\* value: each channel is the floor of 255 times the exact channel for
\* saturation 4/5, or one less where that product is an integer; entry 0 is
\* (255, 50, 50); every entry has a channel equal to 255 and a lowest
\* channel equal to 50.
C17_Saturation ==
    Generated =>
        /\ last.ret[1] = <<255, 50, 50>>
        /\ \A k \in 1 .. last.n :
              /\ \E c \in 1 .. 3 : last.ret[k][c] = 255
              /\ \E c \in 1 .. 3 : last.ret[k][c] = 50
              /\ \A c \in 1 .. 3 :
                    /\ last.ret[k][c] >= 50
                    /\ FloorOrBelow(last.ret[k][c],
                                    ExactChannels(k - 1, last.n, 4, 5)[c],
                                    5 * last.n)

\* the program's palette of 256 entries, whose entry 1 is (255, 55, 50)
C17_Witness ==
    /\ Generated
    /\ last.n = PaletteSize
    /\ last.ret[1] = <<255, 50, 50>>
    /\ last.ret[2] = <<255, 55, 50>>

====
